---- MODULE Spec2Model ----
(***************************************************************************)
(* Model of pcdsdevices/lens.py: the Be lens stack pseudo positioner       *)
(* (LensStackBase, LensStack, SimLensStackBase).                           *)
(*                                                                         *)
(* Numbers.  The code computes in floating point.  The model computes in   *)
(* exact decimal rationals: a number is <<n, d, e>> and stands for         *)
(* (n / d) * 10^e, kept in a canonical form so that equal numbers are      *)
(* equal tuples.  <<0, 0, 0>> is NaN.  np.pi is the rational 22/7, and     *)
(* np.sqrt is exact on the square of a rational and rounded down to four   *)
(* digits otherwise.  An ndarray is a sequence of numbers; a Python scalar *)
(* is a sequence of length one.  None is the empty tuple.                  *)
(*                                                                         *)
(* Values are handed from one operator to the next as arguments, so that   *)
(* each is computed once.                                                  *)
(***************************************************************************)
EXTENDS Integers, Sequences, FiniteSets, TLC

-----------------------------------------------------------------------------
(* Decimal rational arithmetic (Python / numpy float arithmetic).          *)

NaN == <<0, 0, 0>>

None == <<>>

IsNaN(a) == a[2] = 0

AbsInt(i) == IF i < 0 THEN -i ELSE i

MinInt(i, j) == IF i < j THEN i ELSE j

MaxInt(i, j) == IF i < j THEN j ELSE i

RECURSIVE GCD(_, _)
GCD(a, b) == IF b = 0 THEN a ELSE GCD(b, a % b)

RECURSIVE Power(_, _)
Power(b, k) == IF k <= 0 THEN 1 ELSE b * Power(b, k - 1)

\* The powers of 2, 5 and 10 that fit the integers.
Powers == [b \in {2, 5, 10} |->
             [k \in 0..(IF b = 2 THEN 30 ELSE IF b = 5 THEN 13 ELSE 9) |->
                 Power(b, k)]]

\* b^k for b one of 2, 5, 10, and 1 for k <= 0.
IPow(b, k) == IF k <= 0 THEN 1 ELSE Powers[b][k]

\* The exponent of the prime p in n (n # 0).
RECURSIVE Val(_, _)
Val(n, p) == IF n % p = 0 THEN 1 + Val(n \div p, p) ELSE 0

\* The power of ten taken out of 2^a * 5^b.
TenExp(a, b) ==
    IF a >= 0 /\ b >= 0 THEN MinInt(a, b)
    ELSE IF a <= 0 /\ b <= 0 THEN MaxInt(a, b)
    ELSE 0

\* (n / d) * 2^a * 5^b, n and d without factors 2 and 5, with 10^t taken out.
NormTen(n, d, a, b, t) ==
    << n * IPow(2, a - t) * IPow(5, b - t),
       d * IPow(2, t - a) * IPow(5, t - b),
       t >>

\* (n / d) * 10^e in lowest terms; n2, n5, d2, d5 are the exponents of 2
\* and 5 in n and d.
NormVal(n, d, e, n2, n5, d2, d5) ==
    NormTen(n \div (IPow(2, n2) * IPow(5, n5)),
            d \div (IPow(2, d2) * IPow(5, d5)),
            n2 - d2 + e, n5 - d5 + e,
            TenExp(n2 - d2 + e, n5 - d5 + e))

NormLowest(n, d, e) ==
    NormVal(n, d, e, Val(n, 2), Val(n, 5), Val(d, 2), Val(d, 5))

NormGCD(n, d, e, g) == NormLowest(n \div g, d \div g, e)

\* The canonical form of (n / d) * 10^e, d > 0.
Norm(n, d, e) ==
    IF n = 0 THEN <<0, 1, 0>> ELSE NormGCD(n, d, e, GCD(AbsInt(n), d))

Num(i) == Norm(i, 1, 0)

Dec(n, e) == Norm(n, 1, e)

Neg(a) == IF IsNaN(a) THEN NaN ELSE <<-a[1], a[2], a[3]>>

Mul(a, b) ==
    IF IsNaN(a) \/ IsNaN(b) THEN NaN
    ELSE Norm(a[1] * b[1], a[2] * b[2], a[3] + b[3])

\* a / b for b # 0; the callers decide what a zero divisor does.
Div(a, b) ==
    IF IsNaN(a) \/ IsNaN(b) \/ b[1] = 0 THEN NaN
    ELSE Norm((IF b[1] < 0 THEN -1 ELSE 1) * a[1] * b[2],
              a[2] * AbsInt(b[1]), a[3] - b[3])

\* n / d with n scaled by t = 10^g, in lowest terms first (c = GCD(t, d)).
ShiftedBy(n, d, t, c) == <<n * (t \div c), d \div c>>

Shifted(n, d, t) == ShiftedBy(n, d, t, GCD(t, d))

\* p + q for fractions p and q at the exponent e (c = GCD of the denominators).
AddFractions(p, q, c, e) ==
    Norm(p[1] * (q[2] \div c) + q[1] * (p[2] \div c), p[2] * (q[2] \div c), e)

AddShifted(p, q, e) == AddFractions(p, q, GCD(p[2], q[2]), e)

AddAt(a, b, e) ==
    AddShifted(Shifted(a[1], a[2], IPow(10, a[3] - e)),
               Shifted(b[1], b[2], IPow(10, b[3] - e)), e)

Add(a, b) ==
    IF IsNaN(a) \/ IsNaN(b) THEN NaN
    ELSE IF a[1] = 0 THEN b
    ELSE IF b[1] = 0 THEN a
    ELSE AddAt(a, b, MinInt(a[3], b[3]))

Sub(a, b) == Add(a, Neg(b))

AbsNum(a) == IF IsNaN(a) THEN NaN ELSE <<AbsInt(a[1]), a[2], a[3]>>

\* p * 10^g <= q for integers p, q > 0.
LeqScaled(p, q, g) ==
    IF g >= 10 THEN FALSE
    ELSE IF g >= 0 THEN p <= q \div IPow(10, g)
    ELSE IF g <= -10 THEN TRUE
    ELSE (p + IPow(10, -g) - 1) \div IPow(10, -g) <= q

\* a <= b for a, b >= 0.
LeqPos(a, b) ==
    IF a[1] = 0 THEN TRUE
    ELSE IF b[1] = 0 THEN FALSE
    ELSE LeqScaled(a[1] * b[2], b[1] * a[2], a[3] - b[3])

\* Comparisons with NaN are false, as in IEEE arithmetic.
LessEq(a, b) ==
    /\ ~IsNaN(a)
    /\ ~IsNaN(b)
    /\ IF a[1] <= 0 /\ b[1] >= 0 THEN TRUE
       ELSE IF a[1] >= 0 /\ b[1] <= 0 THEN FALSE
       ELSE IF a[1] > 0 THEN LeqPos(a, b)
       ELSE LeqPos(AbsNum(b), AbsNum(a))

RECURSIVE ISqrtBetween(_, _, _)
ISqrtBetween(n, lo, hi) ==
    IF lo >= hi THEN lo
    ELSE IF ((lo + hi + 1) \div 2) * ((lo + hi + 1) \div 2) <= n
    THEN ISqrtBetween(n, (lo + hi + 1) \div 2, hi)
    ELSE ISqrtBetween(n, lo, ((lo + hi + 1) \div 2) - 1)

\* The integer square root, rounded down.
ISqrt(n) == ISqrtBetween(n, 0, MinInt(n, 46340))

\* <<n * 10^j, k + j>> for the largest j that keeps n * 10^j <= lim.
RECURSIVE ScaleUp(_, _, _)
ScaleUp(n, k, lim) ==
    IF n = 0 \/ n > lim \div 10 THEN <<n, k>> ELSE ScaleUp(n * 10, k + 1, lim)

\* The square root of v * 10^ex, rounded down.
SqrtOfScaled(v, ex) ==
    IF ex % 2 = 0 THEN Norm(ISqrt(v), 1, ex \div 2)
    ELSE Norm(ISqrt(v \div 10), 1, (ex + 1) \div 2)

SqrtOfQuotient(s, e) == SqrtOfScaled(s[1], e - s[2])

SqrtDivided(s, d, e) ==
    SqrtOfQuotient(ScaleUp(s[1] \div d, s[2], 100000000), e)

\* The square root of (n / d) * 10^e to four digits, rounded down.
SqrtRounded(n, d, e) == SqrtDivided(ScaleUp(n, 0, 2147483647), d, e)

\* The square root of (n / d) * 10^e, e even: rn and rd are the integer
\* square roots of n and d.
SqrtRoots(n, d, e, rn, rd) ==
    IF rn * rn = n /\ rd * rd = d THEN Norm(rn, rd, e \div 2)
    ELSE SqrtRounded(n, d, e)

\* np.sqrt: NaN for a negative argument (a warning, no exception); exact
\* on the square of a rational.
Sqrt(a) ==
    IF IsNaN(a) \/ a[1] < 0 THEN NaN
    ELSE IF a[3] % 2 = 0
    THEN SqrtRoots(a[1], a[2], a[3], ISqrt(a[1]), ISqrt(a[2]))
    ELSE IF a[1] <= 214748364
    THEN SqrtRoots(a[1] * 10, a[2], a[3] - 1, ISqrt(a[1] * 10), ISqrt(a[2]))
    ELSE SqrtRounded(a[1], a[2], a[3])

\* np.isclose(a, b) with its default tolerances rtol = 1e-5, atol = 1e-8.
IsClose(a, b) ==
    LessEq(AbsNum(Sub(a, b)), Add(Dec(1, -8), Mul(Dec(1, -5), AbsNum(b))))

-----------------------------------------------------------------------------
(* The state of one lens stack and of the devices and files it uses.       *)

VARIABLES
    attObj,     \* "None", or "Attenuator" when an attenuator object was given
    filters,    \* attObj.filters: a sequence of [thickness, inserted]
    lensset,    \* self.lensset: <<n1, radius1, n2, radius2, ...>>
    zdir,       \* self._zdir
    xPos,       \* self.x.position
    yPos,       \* self.y.position
    zPos,       \* self.z.position
    presets,    \* the presets of the axes: [x |-> [one, two], y |-> .., z |-> ..]
    storeOK,    \* TRUE when the preset paths are set up (add_hutch exists)
    cfgFile,    \* the content of the file self.path
    bakFile,    \* the content of the file self.path + str(date.today())
    op,         \* the operation called last
    arg,        \* its argument
    ret,        \* what it returned or raised
    log,        \* the error it logged, "" when none
    msCall,     \* the call of _makeSafe within the last operation
    cmds        \* the motion commands the last operation sent to the axes

vars == << attObj, filters, lensset, zdir, xPos, yPos, zPos, presets, storeOK,
           cfgFile, bakFile, op, arg, ret, log, msCall, cmds >>

-----------------------------------------------------------------------------
(* Bounds and inputs.                                                      *)

MaxFilters == 2

\* The thicknesses a filter may have.
Thicknesses == {0, 1}

\* The 2/2.35 conversion between a FWHM and the Gaussian w parameter.
FWHMFactor == Dec(235, -2)

\* np.pi
Pi == Norm(22, 7, 0)

\* self._E, in keV
E == Dec(12398, -3)

\* self._zoffset, in m
zoffset == Num(22)

\* self.beamsizeUnfocused, in m
beamsizeUnfocused == Dec(470, -6)

\* Two of lensRadii2D
R100 == Dec(100, -6)

R200 == Dec(200, -6)

\* The travel limits of the axes of the simulated stack.
zLimits == <<Num(-100), Num(100)>>

\* The lens sets a stack is built with (focal length 22 m, or none), and
\* the ones calcFocalLength is called with.
StackLensSets == { <<1, R100>>, <<1, R100, 3, None>>, <<1, None>> }

LensSets == { <<>>, <<2, None, 1, None>>, <<1, R100, 3, None>>,
              <<2, R100, 1, R200>> }

\* Target beam sizes (FWHM, m).  The waist of the 22 m lens sets is 1.75e-6 m,
\* 329/160 e-6 m FWHM: the targets are 5/3 and 5/6 of it.
BeamSizes == { Norm(329, 96, -6), Norm(329, 192, -6) }

\* The calib_z a move is asked for, and the ones forward is called with.
CalibZs == { Num(50) }

LineZs == { Num(0), Num(50), Num(100) }

\* Where the operator may leave (x, y) in the first and in the second call
\* of tweak.
Jogs == { << <<Num(0), Num(0)>>, <<Num(10), Num(20)>> >>,
          << <<Num(10), Num(-5)>>, <<Num(0), Num(0)>> >> }

\* The lens sets CreateLens is called with.
NewLensSets == { <<2, R200>>, <<1, R100>> }

NoPresets == [ax \in {"x", "y", "z"} |-> [one |-> None, two |-> None]]

\* The calibration line P1 = (0, 0, 0), P2 = (10, 20, 100).
ExampleLine == [ x |-> [one |-> Num(0), two |-> Num(10)],
                 y |-> [one |-> Num(0), two |-> Num(20)],
                 z |-> [one |-> Num(0), two |-> Num(100)] ]

-----------------------------------------------------------------------------
(* The optics.                                                             *)

Ok(v) == [kind |-> "ok", v |-> v]

Raise(e) == [kind |-> e, v |-> None]

\* getDelta: 1 - Re(n) of Be at the energy, from the scattering factor
\* tables.
getDelta(energy) == Norm(25, 11, -6)

calcFocalLengthForSingleLens(energy, radius) ==
    Div(Div(radius, Num(2)), getDelta(energy))

\* The loop of calcFocalLength from element i on.
RECURSIVE ftot_inverse(_, _, _)
ftot_inverse(energy, ls, i) ==
    IF i > Len(ls) \div 2 THEN Num(0)
    ELSE Add(IF ls[2 * i] # None
             THEN Div(Num(ls[2 * i - 1]),
                      calcFocalLengthForSingleLens(energy, ls[2 * i]))
             ELSE Num(0),
             ftot_inverse(energy, ls, i + 1))

\* ftot_inverse is still the integer 0 when no element has a radius, and
\* 1./0 then raises ZeroDivisionError.
calcFocalLength(energy, ls) ==
    IF \A i \in 1..(Len(ls) \div 2) : ls[2 * i] = None
    THEN Raise("ZeroDivisionError")
    ELSE Ok(Div(Num(1), ftot_inverse(energy, ls, 1)))

\* waist = lam/np.pi*f/w_unfocused, w_unfocused = fwhm_unfocused*2/2.35
Waist(lam, f, fwhm_unfocused) ==
    Div(Mul(Div(lam, Pi), f), Div(Mul(fwhm_unfocused, Num(2)), FWHMFactor))

\* rayleigh_range = np.pi*waist**2/lam
RayleighRange(lam, waist) == Div(Mul(Pi, Mul(waist, waist)), lam)

Square(a) == Mul(a, a)

\* (np.sqrt(...)*np.asarray([-1., 1.])*rayleigh_range) + f
Distances(root, rayleigh_range, f) ==
    << Add(Mul(Mul(root, Num(-1)), rayleigh_range), f),
       Add(Mul(Mul(root, Num(1)), rayleigh_range), f) >>

\* np.sqrt of a negative number is NaN, so that both distances are NaN
\* when the size is below the waist.
DistancesForWaist(size, lam, f, waist) ==
    Distances(Sqrt(Sub(Square(Div(size, waist)), Num(1))),
              RayleighRange(lam, waist), f)

DistancesForFocal(size, lam, fl, fwhm_unfocused) ==
    IF fl.kind # "ok" THEN fl
    ELSE Ok(DistancesForWaist(size, lam, fl.v,
                              Waist(lam, fl.v, fwhm_unfocused)))

\* Returns the ndarray of the two distances.
calcDistanceForSize(sizeFWHM, ls, energy, fwhm_unfocused) ==
    DistancesForFocal(Div(Mul(sizeFWHM, Num(2)), FWHMFactor),
                      Mul(Div(Dec(12398, -3), energy), Dec(1, -10)),
                      calcFocalLength(energy, ls), fwhm_unfocused)

\* size = waist*np.sqrt(1.+(distance-f)**2./rayleigh_range**2), as FWHM
SizeAt(waist, rayleigh_range, d) ==
    Div(Mul(Mul(waist,
                Sqrt(Add(Num(1), Div(Square(d), Square(rayleigh_range))))),
            FWHMFactor),
        Num(2))

SizeForWaist(lam, f, waist, distance) ==
    SizeAt(waist, RayleighRange(lam, waist), Sub(distance, f))

SizeForFocal(lam, fl, distance, fwhm_unfocused) ==
    IF fl.kind # "ok" THEN fl
    ELSE Ok(SizeForWaist(lam, fl.v, Waist(lam, fl.v, fwhm_unfocused),
                         distance))

calcBeamFWHM(energy, ls, distance, fwhm_unfocused) ==
    SizeForFocal(Mul(Div(Dec(12398, -4), energy), Dec(1, -9)),
                 calcFocalLength(energy, ls), distance, fwhm_unfocused)

-----------------------------------------------------------------------------
(* The coordinate transform.                                               *)

HasLine(pre) ==
    \A ax \in {"x", "y", "z"} : pre[ax].one # None /\ pre[ax].two # None

\* inverse: the distance from the lens of a stage position z (mm).
dist_m(z) == Add(Mul(Div(z, Num(1000)), Num(zdir)), zoffset)

\* inverse(real_pos), elementwise when real_pos.z is an ndarray.
inverse(real_z) ==
    IF calcFocalLength(E, lensset).kind # "ok"
    THEN [kind |-> calcFocalLength(E, lensset).kind,
          calib_z |-> None, beam_size |-> None]
    ELSE [ kind      |-> "PseudoPosition",
           calib_z   |-> real_z,
           beam_size |-> [i \in DOMAIN real_z |->
               calcBeamFWHM(E, lensset, dist_m(real_z[i]),
                            beamsizeUnfocused).v] ]

\* self.beam_size.position: the beam size read back at the stage position z.
BeamSizeReadback(z) == inverse(<<z>>)

\* The branch of forward that computes z from the beam size: both distances
\* of calcDistanceForSize go through, as an ndarray.
ZFromBeamSize(dist) ==
    [i \in DOMAIN dist |->
        Mul(Mul(Sub(dist[i], zoffset), Num(zdir)), Num(1000))]

\* An interpolation that starts from the second point with the offset of
\* the first.
InterpolateFromTwo(one, two, z1, z2, z_pos) ==
    Add(Mul(Div(Sub(one, two), Sub(z1, z2)), Sub(z_pos, z1)), two)

\* x_pos (on the x presets) and y_pos (on the y presets) of forward, for
\* one z.
Interpolate(one, two, z1, z2, z_pos) ==
    Add(Mul(Div(Sub(one, two), Sub(z1, z2)), Sub(z_pos, z1)), one)

\* forward raised e, or returned None (e = "None").
NoRealPosition(e) == [kind |-> e, x |-> None, y |-> None, z |-> None]

\* The try block of forward.
OnLine(pre, z_pos) ==
    IF ~HasLine(pre) THEN NoRealPosition("None")
    ELSE IF pre.z.one = pre.z.two THEN NoRealPosition("ZeroDivisionError")
    ELSE [ kind |-> "RealPosition",
           x |-> [i \in DOMAIN z_pos |->
                    Interpolate(pre.x.one, pre.x.two,
                                pre.z.one, pre.z.two, z_pos[i])],
           y |-> [i \in DOMAIN z_pos |->
                    Interpolate(pre.y.one, pre.y.two,
                                pre.z.one, pre.z.two, z_pos[i])],
           z |-> z_pos ]

ForwardFromDistances(pre, dist) ==
    IF dist.kind # "ok" THEN NoRealPosition(dist.kind)
    ELSE OnLine(pre, ZFromBeamSize(dist.v))

\* forward(pseudo_pos) with the presets pre; rb is what it reads of
\* self.beam_size.position.
forward(pseudo_pos, pre, rb) ==
    IF rb.kind # "PseudoPosition" THEN NoRealPosition(rb.kind)
    ELSE IF ~IsClose(pseudo_pos.beam_size, rb.beam_size[1])
    THEN ForwardFromDistances(pre,
             calcDistanceForSize(pseudo_pos.beam_size, lensset, E,
                                 beamsizeUnfocused))
    ELSE OnLine(pre, <<pseudo_pos.calib_z>>)

-----------------------------------------------------------------------------
(* The interlock.                                                          *)

\* A scan that lets the last of several thickest filters win.
RECURSIVE ScanLast(_, _, _, _)
ScanLast(fs, i, filt, thk) ==
    IF i > Len(fs) THEN filt
    ELSE IF fs[i].thickness >= thk
    THEN ScanLast(fs, i + 1, i, fs[i].thickness)
    ELSE ScanLast(fs, i + 1, filt, thk)

\* The scan of _makeSafe from filter i on: the index of the chosen filter.
RECURSIVE Scan(_, _, _, _)
Scan(fs, i, filt, thk) ==
    IF i > Len(fs) THEN filt
    ELSE IF fs[i].thickness > thk THEN Scan(fs, i + 1, i, fs[i].thickness)
    ELSE Scan(fs, i + 1, filt, thk)

\* The filters after filt.insert() and the wait: inserts tells whether the
\* filter got in.
Insert(fs, filt, inserts) == [fs EXCEPT ![filt].inserted = inserts]

\* The end of _makeSafe: after are the filters at the second look.
Safe(fs, filt, after) ==
    [ safe      |-> after[filt].inserted,
      filters   |-> after,
      filt      |-> filt,
      commanded |-> ~fs[filt].inserted ]

InsertChosen(fs, filt, inserts) ==
    Safe(fs, filt,
         IF ~fs[filt].inserted THEN Insert(fs, filt, inserts) ELSE fs)

\* _makeSafe
makeSafe(att, fs, inserts) ==
    IF att = "None"
    THEN [safe |-> FALSE, filters |-> fs, filt |-> 0, commanded |-> FALSE]
    ELSE InsertChosen(fs, Scan(fs, 1, 1, 0), inserts)

-----------------------------------------------------------------------------
(* The axes.                                                               *)

Cmd(axis, value, interlock) ==
    [axis |-> axis, value |-> value, interlock |-> interlock]

\* Where an axis stands after a command: at the value for a number, where it
\* was for an ndarray or NaN.
Settle(pos, value) ==
    IF Len(value) = 1 /\ ~IsNaN(value[1]) THEN value[1] ELSE pos

\* The commands of PseudoPositioner.move for the real position forward
\* returned.  When forward returned None there is no real position to
\* unpack (TypeError).
MoveTo(real, x, y, z, interlock) ==
    IF real.kind = "RealPosition"
    THEN [ ret  |-> [kind |-> "moved"],
           cmds |-> << Cmd("x", real.x, interlock),
                       Cmd("y", real.y, interlock),
                       Cmd("z", real.z, interlock) >>,
           x |-> Settle(x, real.x),
           y |-> Settle(y, real.y),
           z |-> Settle(z, real.z) ]
    ELSE [ ret  |-> [kind |-> IF real.kind = "None" THEN "TypeError"
                              ELSE real.kind],
           cmds |-> <<>>, x |-> x, y |-> y, z |-> z ]

\* PseudoPositioner.move: forward, then one command to each axis.
SuperMove(position, pre, x, y, z, rb, interlock) ==
    MoveTo(forward(position, pre, rb), x, y, z, interlock)

\* What is recorded of a call of _makeSafe: its result r and the filters
\* before it.
NotCalled == [called |-> FALSE, safe |-> FALSE, filt |-> 0,
              commanded |-> FALSE, before |-> <<>>]

Called(r, before) == [called |-> TRUE, safe |-> r.safe, filt |-> r.filt,
                      commanded |-> r.commanded, before |-> before]

\* An operation that went through _makeSafe (ms) and then did mv.
Interlocked(ms, mv) ==
    [msCall |-> Called(ms, filters), filters |-> ms.filters,
     ret |-> mv.ret, cmds |-> mv.cmds, x |-> mv.x, y |-> mv.y, z |-> mv.z]

\* An operation that did mv without a call of _makeSafe.
NotInterlocked(mv) ==
    [msCall |-> NotCalled, filters |-> filters,
     ret |-> mv.ret, cmds |-> mv.cmds, x |-> mv.x, y |-> mv.y, z |-> mv.z]

Stay(kind, x, y, z) ==
    [ret |-> [kind |-> kind], cmds |-> <<>>, x |-> x, y |-> y, z |-> z]

\* A move that does not look at what _makeSafe returned.
MoveAnyway(ms, position, pre, x, y, z, rb) ==
    Interlocked(ms, SuperMove(position, pre, x, y, z, rb,
                              IF ms.safe THEN "true" ELSE "false"))

\* if self._makeSafe() is True: return super().move(...)
MoveIfSafe(ms, position, pre, x, y, z, rb) ==
    IF ms.safe
    THEN Interlocked(ms, SuperMove(position, pre, x, y, z, rb, "true"))
    ELSE Interlocked(ms, Stay("None", x, y, z))

\* LensStackBase.move with the stage at (x, y, z) and the beam size read
\* back rb: the interlock, then the move of the base class.
MoveResult(position, pre, x, y, z, rb, inserts) ==
    MoveIfSafe(makeSafe(attObj, filters, inserts), position, pre, x, y, z, rb)

-----------------------------------------------------------------------------
(* The operations.                                                         *)

\* The pseudo positions a caller asks for when rb is the beam size read
\* back: a calib_z of zs with the beam size read back (no change), or a
\* beam size of BeamSizes.
PseudoTargets(rb, zs) ==
    [calib_z : CalibZs, beam_size : BeamSizes] \cup
    (IF rb.kind = "PseudoPosition"
     THEN [calib_z : zs, beam_size : {rb.beam_size[1]}] ELSE {})

\* move(position); rb is the beam size read back where the stage stands.
Move(position, rb, inserts) ==
    \E r \in {MoveResult(position, presets, xPos, yPos, zPos, rb, inserts)} :
        /\ op' = "move"
        /\ arg' = position
        /\ ret' = r.ret
        /\ log' = IF r.ret.kind = "TypeError" THEN "forward" ELSE ""
        /\ msCall' = r.msCall
        /\ cmds' = r.cmds
        /\ filters' = r.filters
        /\ xPos' = r.x
        /\ yPos' = r.y
        /\ zPos' = r.z
        /\ UNCHANGED <<attObj, lensset, zdir, presets, storeOK, cfgFile, bakFile>>

\* forward(pseudo_pos), called directly
Forward(pseudo_pos, rb) ==
    \E r \in {forward(pseudo_pos, presets, rb)} :
        /\ op' = "forward"
        /\ arg' = pseudo_pos
        /\ ret' = r
        /\ log' = IF r.kind = "None" THEN "forward" ELSE ""
        /\ msCall' = NotCalled
        /\ cmds' = <<>>
        /\ UNCHANGED <<attObj, filters, lensset, zdir, xPos, yPos, zPos,
                       presets, storeOK, cfgFile, bakFile>>

\* The real z positions inverse is called with: where the stage stands, and
\* the z that the call of forward just before returned.
RealZs ==
    {[z |-> <<zPos>>, of |-> None]} \cup
    (IF op = "forward" /\ ret.kind = "RealPosition"
     THEN {[z |-> ret.z, of |-> <<arg>>]} ELSE {})

\* inverse(real_pos), called directly; real.of is the pseudo position that
\* real.z is the image of, if any.
Inverse(real) ==
    /\ op' = "inverse"
    /\ arg' = real
    /\ ret' = inverse(real.z)
    /\ log' = ""
    /\ msCall' = NotCalled
    /\ cmds' = <<>>
    /\ UNCHANGED <<attObj, filters, lensset, zdir, xPos, yPos, zPos,
                   presets, storeOK, cfgFile, bakFile>>

\* calcFocalLength(E, ls), called directly
CalcFocalLength(ls) ==
    /\ op' = "calcFocalLength"
    /\ arg' = ls
    /\ ret' = calcFocalLength(E, ls)
    /\ log' = ""
    /\ msCall' = NotCalled
    /\ cmds' = <<>>
    /\ UNCHANGED <<attObj, filters, lensset, zdir, xPos, yPos, zPos,
                   presets, storeOK, cfgFile, bakFile>>

\* calcDistanceForSize(sizeFWHM, self.lensset, E, fwhm_unfocused), called
\* directly
CalcDistanceForSize(sizeFWHM) ==
    /\ op' = "calcDistanceForSize"
    /\ arg' = sizeFWHM
    /\ ret' = calcDistanceForSize(sizeFWHM, lensset, E, beamsizeUnfocused)
    /\ log' = ""
    /\ msCall' = NotCalled
    /\ cmds' = <<>>
    /\ UNCHANGED <<attObj, filters, lensset, zdir, xPos, yPos, zPos,
                   presets, storeOK, cfgFile, bakFile>>

\* The six add_hutch calls of align.
AddHutch(p1, p2) ==
    [ x |-> [one |-> p1[1], two |-> p2[1]],
      y |-> [one |-> p1[2], two |-> p2[2]],
      z |-> [one |-> p1[3], two |-> p2[3]] ]

\* self.calib_z.move(z_position), the end of align, with the stage at
\* (x, y, z) and the beam size read back rb: the
\* beam size of the target is rb, and reading it back raises when the lens
\* set has no focal length.
CalibZMove(z_position, pre, x, y, z, rb, inserts) ==
    IF rb.kind # "PseudoPosition"
    THEN NotInterlocked(Stay(rb.kind, x, y, z))
    ELSE MoveResult([calib_z |-> z_position, beam_size |-> rb.beam_size[1]],
                    pre, x, y, z, rb, inserts)

\* The points align collects: the stage at the lower and at the upper limit
\* of z, with (x, y) where the operator left them.
AlignPoints(jog1, jog2) ==
    << <<jog1[1], jog1[2], zLimits[1]>>, <<jog2[1], jog2[2], zLimits[2]>> >>

\* align(z_position): jog1 and jog2 are where the operator leaves (x, y) in
\* the two calls of tweak, rb is the beam size read back at the upper limit
\* of z.
Align(z_position, jog1, jog2, rb, inserts) ==
    \E pos \in {AlignPoints(jog1, jog2)} :
    \E line \in {AddHutch(pos[1], pos[2])} :
    \E r \in { IF storeOK /\ z_position # None
               THEN CalibZMove(z_position, line, jog2[1], jog2[2],
                               zLimits[2], rb, inserts)
               ELSE NotInterlocked(Stay("None", jog2[1], jog2[2],
                                        zLimits[2])) } :
        /\ op' = "align"
        /\ arg' = [z_position |-> z_position, pos |-> pos[1] \o pos[2]]
        /\ presets' = IF storeOK THEN line ELSE presets
        /\ log' = IF ~storeOK THEN "align"
                  ELSE IF r.ret.kind = "TypeError" THEN "forward"
                  ELSE ""
        /\ ret' = IF r.ret.kind = "moved" THEN [kind |-> "None"] ELSE r.ret
        /\ msCall' = r.msCall
        /\ cmds' = << Cmd("z", <<zLimits[1]>>, "unknown"),
                      Cmd("z", <<zLimits[2]>>, "unknown") >> \o r.cmds
        /\ filters' = r.filters
        /\ xPos' = r.x
        /\ yPos' = r.y
        /\ zPos' = r.z
        /\ UNCHANGED <<attObj, lensset, zdir, storeOK, cfgFile, bakFile>>

LensFile(ls) == [kind |-> "lensset", data |-> ls]

\* What yaml.dump(self.path, f) writes: the name of the file, a string.
PathFile == [kind |-> "path", data |-> <<>>]

NoFile == [kind |-> "absent", data |-> <<>>]

\* ReadLens()
ReadLens ==
    /\ op' = "ReadLens"
    /\ arg' = None
    /\ ret' = cfgFile
    /\ log' = ""
    /\ msCall' = NotCalled
    /\ cmds' = <<>>
    /\ UNCHANGED <<attObj, filters, lensset, zdir, xPos, yPos, zPos,
                   presets, storeOK, cfgFile, bakFile>>

\* CreateLens(ls): shutil.copyfile(path, path + date), then the dated file
\* is opened for writing and self.path is dumped into it.
CreateLens(ls) ==
    /\ op' = "CreateLens"
    /\ arg' = [lensset |-> ls, before |-> cfgFile]
    /\ ret' = [kind |-> "None"]
    /\ log' = ""
    /\ msCall' = NotCalled
    /\ cmds' = <<>>
    /\ bakFile' = PathFile
    /\ cfgFile' = cfgFile
    /\ UNCHANGED <<attObj, filters, lensset, zdir, xPos, yPos, zPos,
                   presets, storeOK>>

-----------------------------------------------------------------------------
(* The specification.                                                      *)

Filter == [thickness : Thicknesses, inserted : BOOLEAN]

FilterSeqs == UNION { [1..n -> Filter] : n \in 1..MaxFilters }

\* The state after construction: the lens set is the one read from the
\* file, no operation was called, the axes stand at 0.
InitWith(atts, lenssets, zdirs, lines, stores) ==
    /\ attObj \in {att.obj : att \in atts}
    /\ filters \in {att.filters : att \in {t \in atts : t.obj = attObj}}
    /\ lensset \in lenssets
    /\ zdir \in zdirs
    /\ xPos = Num(0)
    /\ yPos = Num(0)
    /\ zPos = Num(0)
    /\ presets \in lines
    /\ storeOK \in stores
    /\ cfgFile = LensFile(lensset)
    /\ bakFile = NoFile
    /\ op = "init"
    /\ arg = None
    /\ ret = [kind |-> "None"]
    /\ log = ""
    /\ msCall = NotCalled
    /\ cmds = <<>>

NoAttenuator == [obj |-> "None", filters |-> <<>>]

\* Every attenuator, and none, with one lens set and a preset store.
Init ==
    InitWith({NoAttenuator} \cup
             {[obj |-> "Attenuator", filters |-> fs] : fs \in FilterSeqs},
             {<<1, R100>>}, {1}, {NoPresets}, {TRUE})

\* Every lens set, direction, calibration and store, with one attenuator.
InitOptics ==
    InitWith({[obj |-> "Attenuator",
               filters |-> <<[thickness |-> 1, inserted |-> FALSE]>>]},
             StackLensSets, {1, -1}, {NoPresets, ExampleLine}, BOOLEAN)

Next ==
    \/ \E rb \in {BeamSizeReadback(zPos)} :
          \E p \in PseudoTargets(rb, CalibZs), inserts \in BOOLEAN :
              Move(p, rb, inserts)
    \/ \E rb \in {BeamSizeReadback(zPos)} :
          \E p \in PseudoTargets(rb, LineZs) : Forward(p, rb)
    \/ \E real \in RealZs : Inverse(real)
    \/ \E ls \in LensSets : CalcFocalLength(ls)
    \/ \E s \in BeamSizes : CalcDistanceForSize(s)
    \/ \E rb \in {BeamSizeReadback(zLimits[2])} :
          \E zt \in CalibZs \cup {None}, jog \in Jogs, inserts \in BOOLEAN :
              Align(zt, jog[1], jog[2], rb, inserts)
    \/ ReadLens
    \/ \E ls \in NewLensSets : CreateLens(ls)

Spec == Init /\ [][Next]_vars

SpecOptics == InitOptics /\ [][Next]_vars

-----------------------------------------------------------------------------
(* Properties.                                                             *)

\* The thickest filters of fs.
Thickest(fs) ==
    {i \in DOMAIN fs : \A j \in DOMAIN fs : fs[j].thickness <= fs[i].thickness}

\* x1 + (x2 - x1) * (z - z1) / (z2 - z1)
OnTheLine(one, two, z1, z2, z) ==
    Add(one, Div(Mul(Sub(two, one), Sub(z, z1)), Sub(z2, z1)))

\* The last operation asked for the beam size that is read back.
NoBeamSizeChange ==
    /\ BeamSizeReadback(zPos).kind = "PseudoPosition"
    /\ arg.beam_size = BeamSizeReadback(zPos).beam_size[1]

\* The Gaussian width of sizeFWHM is below the waist of the lens set.
BelowWaist(sizeFWHM) ==
    /\ calcFocalLength(E, lensset).kind = "ok"
    /\ ~LessEq(Waist(Mul(Div(Dec(12398, -3), E), Dec(1, -10)),
                     calcFocalLength(E, lensset).v, beamsizeUnfocused),
               Div(Mul(sizeFWHM, Num(2)), FWHMFactor))

\* The last operation asked for a beam size that is not the one read back
\* and that the lens set can make.
ReachableBeamSizeChange ==
    /\ BeamSizeReadback(zPos).kind = "PseudoPosition"
    /\ ~IsClose(arg.beam_size, BeamSizeReadback(zPos).beam_size[1])
    /\ ~BelowWaist(arg.beam_size)

\* The sum of count / f over the elements of ls that have a radius.
RECURSIVE InversePower(_, _)
InversePower(ls, n) ==
    IF n = 0 THEN Num(0)
    ELSE Add(InversePower(ls, n - 1),
             IF ls[2 * n] = None THEN Num(0)
             ELSE Div(Mul(Num(ls[2 * n - 1]), Mul(getDelta(E), Num(2))),
                      ls[2 * n]))

\* C1: in every call of move the interlock _makeSafe is evaluated; the axes
\* receive no motion command when it returned false, and every motion
\* command of the call was issued after it returned true.
C1_MoveBehindInterlock ==
    op = "move" =>
        /\ msCall.called
        /\ ~msCall.safe => cmds = <<>>
        /\ \A i \in DOMAIN cmds : cmds[i].interlock = "true" /\ msCall.safe

\* A call of move on a calibrated stack with an attenuator whose thickest
\* filter did not go in.
C1_Witness ==
    /\ op = "move"
    /\ attObj = "Attenuator"
    /\ HasLine(presets)
    /\ msCall.called
    /\ msCall.commanded
    /\ ~msCall.safe
    /\ cmds = <<>>

\* C2: _makeSafe returns false at once without an attenuator; otherwise it
\* chooses the first of the thickest filters, commands its insertion exactly
\* when it is not inserted, touches no other filter, and returns true
\* exactly when the chosen filter is inserted at the end; a false result is
\* returned, not raised.
C2_MakeSafe ==
    msCall.called =>
        IF attObj = "None"
        THEN /\ ~msCall.safe
             /\ ~msCall.commanded
             /\ filters = msCall.before
        ELSE /\ msCall.filt \in Thickest(msCall.before)
             /\ \A i \in Thickest(msCall.before) : msCall.filt <= i
             /\ msCall.commanded <=> ~msCall.before[msCall.filt].inserted
             /\ msCall.safe <=> filters[msCall.filt].inserted
             /\ \A i \in DOMAIN filters :
                    i # msCall.filt => filters[i] = msCall.before[i]
             /\ (op = "move" /\ ~msCall.safe) => ret.kind = "None"

\* Two filters of the same thickness: the first is chosen, its insertion is
\* commanded and it does not go in.
C2_Witness ==
    /\ msCall.called
    /\ Len(msCall.before) = 2
    /\ msCall.before[1].thickness = msCall.before[2].thickness
    /\ msCall.before[1].thickness > 0
    /\ msCall.filt = 1
    /\ msCall.commanded
    /\ ~msCall.safe

\* C3: every motion command an operation sends to x, y or z, the two moves
\* of z to its limits in align included, comes after a call of _makeSafe in
\* that operation that returned true.
C3_NoCommandWithoutInterlock ==
    \A i \in DOMAIN cmds :
        /\ msCall.called
        /\ msCall.safe
        /\ cmds[i].interlock = "true"

\* C4: forward with no change of the beam size and a calibration line with
\* z1 # z2 returns z = calib_z and x, y on the line through the two points:
\* x = x1 + (x2 - x1)(z - z1)/(z2 - z1), the same for y; z1 gives (x1, y1),
\* z2 gives (x2, y2), and the line (0,0,0)-(10,20,100) gives (5, 10) at 50.
C4_ForwardOnTheLine ==
    ( /\ op = "forward"
      /\ HasLine(presets)
      /\ presets.z.one # presets.z.two
      /\ NoBeamSizeChange )
    =>
        /\ ret.kind = "RealPosition"
        /\ ret.z = <<arg.calib_z>>
        /\ ret.x = << OnTheLine(presets.x.one, presets.x.two,
                                presets.z.one, presets.z.two, arg.calib_z) >>
        /\ ret.y = << OnTheLine(presets.y.one, presets.y.two,
                                presets.z.one, presets.z.two, arg.calib_z) >>
        /\ arg.calib_z = presets.z.one =>
               ret.x = <<presets.x.one>> /\ ret.y = <<presets.y.one>>
        /\ arg.calib_z = presets.z.two =>
               ret.x = <<presets.x.two>> /\ ret.y = <<presets.y.two>>
        /\ (presets = ExampleLine /\ arg.calib_z = Num(50)) =>
               ret.x = <<Num(5)>> /\ ret.y = <<Num(10)>>

\* forward at calib_z = 50 on the line (0,0,0)-(10,20,100), the beam size
\* unchanged.
C4_Witness ==
    /\ op = "forward"
    /\ presets = ExampleLine
    /\ arg.calib_z = Num(50)
    /\ NoBeamSizeChange
    /\ ret.kind = "RealPosition"
    /\ ret.x = <<Num(5)>>
    /\ ret.y = <<Num(10)>>
    /\ ret.z = <<Num(50)>>

\* C5: without a calibration line forward fails with CalibrationMissing,
\* and a move that needs the transform is aborted with that error and
\* without a motion command.
C5_CalibrationMissing ==
    ( /\ op \in {"forward", "move"}
      /\ ~HasLine(presets)
      /\ op = "move" => msCall.safe
      /\ BeamSizeReadback(zPos).kind = "PseudoPosition" )
    =>
        /\ ret.kind = "CalibrationMissing"
        /\ cmds = <<>>

\* C6: when the preset store takes no writes, align fails with
\* PresetStoreUnavailable, which a successful align never returns, and the
\* stored line is not a mixture of new and old points.
C6_PresetStoreUnavailable ==
    op = "align" =>
        /\ ~storeOK => ret.kind = "PresetStoreUnavailable"
        /\ storeOK => ret.kind # "PresetStoreUnavailable"
        /\ \/ presets = AddHutch(SubSeq(arg.pos, 1, 3), SubSeq(arg.pos, 4, 6))
           \/ ~storeOK

\* C7: after CreateLens(lensset) the dated file holds what the configuration
\* file held before the call, and the configuration file holds the new lens
\* set, which is what a ReadLens that follows returns.
C7_BackupThenWrite ==
    op = "CreateLens" =>
        /\ bakFile = arg.before
        /\ cfgFile = LensFile(arg.lensset)

\* C8: calcFocalLength leaves out the elements without a radius and returns
\* the inverse of the sum of count / f over the others, positive and finite
\* when there is one; it fails with NoFocusingPower when there is none.
C8_FocalLength ==
    op = "calcFocalLength" =>
        IF \E i \in 1..(Len(arg) \div 2) : arg[2 * i] # None
        THEN /\ ret.kind = "ok"
             /\ ~IsNaN(ret.v)
             /\ ret.v[1] > 0
             /\ Div(Num(1), ret.v) = InversePower(arg, Len(arg) \div 2)
        ELSE ret.kind = "NoFocusingPower"

\* C9: for a size below the waist calcDistanceForSize fails with
\* BeamSizeUnreachable and returns no distances, and forward and move
\* refuse such a beam size without a motion command.
C9_BeamSizeUnreachable ==
    /\ (op = "calcDistanceForSize" /\ BelowWaist(arg)) =>
           ret.kind = "BeamSizeUnreachable"
    /\ ( /\ op \in {"forward", "move"}
         /\ op = "move" => msCall.safe
         /\ HasLine(presets)
         /\ BelowWaist(arg.beam_size) )
       => ret.kind = "BeamSizeUnreachable" /\ cmds = <<>>

\* C10: for a changed, reachable beam size forward returns one real position
\* with a single z, (d - zoffset) * zdir * 1000 for one of the two distances
\* d of calcDistanceForSize, and inverse of that position returns the beam
\* size asked for.
C10_OneRoot ==
    /\ ( /\ op = "forward"
         /\ HasLine(presets)
         /\ presets.z.one # presets.z.two
         /\ ReachableBeamSizeChange )
       =>
           /\ ret.kind = "RealPosition"
           /\ Len(ret.z) = 1
           /\ \E d \in { calcDistanceForSize(arg.beam_size, lensset, E,
                                             beamsizeUnfocused).v[i] :
                         i \in 1..2 } :
                  ret.z = ZFromBeamSize(<<d>>)
    /\ (op = "inverse" /\ arg.of # None /\ ret.kind = "PseudoPosition") =>
           \A i \in DOMAIN ret.beam_size :
               \/ IsClose(ret.beam_size[i], arg.of[1].beam_size)
               \/ BelowWaist(arg.of[1].beam_size)

====
